---- MODULE Spec2Model ----
(***************************************************************************)
(* Model of the lyrics fetcher of src/main.py: the cache store             *)
(* (load_cache, save_cache, is_in_cache), the lyrics client (get_lyrics),  *)
(* the per-file coroutine process_file and the orchestrator main_async.    *)
(*                                                                         *)
(* Strings are sequences of one-character strings, so that strip(),        *)
(* splitext(), commonpath() and sorted() are computed as Python computes   *)
(* them.  Paths follow the posixpath flavour of os.path (separator "/").   *)
(***************************************************************************)
EXTENDS Integers, Sequences, FiniteSets, TLC

(***************************************************************************)
(* Bounds of the model.                                                    *)
(***************************************************************************)
\* number of audio files in the scanned tree (a prefix of AudioTree)
NumFiles == 2
\* number of consecutive runs of the program on the same directory
MaxRuns == 2
\* capacity of the limiter.  src/main.py:14 sets 20; the model keeps the
\* capacity below NumFiles so that tasks do queue for a slot.
MAX_CONCURRENCY == 1

(***************************************************************************)
(* Characters and strings.                                                 *)
(***************************************************************************)
\* code points of the characters the model's strings are made of
Ord(c) ==
  CASE c = "\t" -> 9
    [] c = "\n" -> 10
    [] c = " " -> 32
    [] c = "." -> 46
    [] c = "/" -> 47
    [] c = "3" -> 51
    [] c = "a" -> 97
    [] c = "b" -> 98
    [] c = "c" -> 99
    [] c = "f" -> 102
    [] c = "g" -> 103
    [] c = "l" -> 108
    [] c = "m" -> 109
    [] c = "o" -> 111
    [] c = "p" -> 112
    [] c = "r" -> 114
    [] c = "x" -> 120
    [] c = "y" -> 121
    [] c = "z" -> 122

\* str.isspace() for the characters of the model
Whitespace == {" ", "\t", "\n"}

\* Python's  a < b  on str: lexicographic by code point
RECURSIVE StrLess(_, _)
StrLess(a, b) ==
  IF b = <<>> THEN FALSE
  ELSE IF a = <<>> THEN TRUE
  ELSE IF Ord(Head(a)) # Ord(Head(b)) THEN Ord(Head(a)) < Ord(Head(b))
  ELSE StrLess(Tail(a), Tail(b))

\* str.strip(): drop leading and trailing whitespace
RECURSIVE LStrip(_)
LStrip(s) ==
  IF s # <<>> /\ Head(s) \in Whitespace THEN LStrip(Tail(s)) ELSE s

RECURSIVE RStrip(_)
RStrip(s) ==
  IF s # <<>> /\ s[Len(s)] \in Whitespace
  THEN RStrip(SubSeq(s, 1, Len(s) - 1)) ELSE s

strip(s) == RStrip(LStrip(s))

\* str.endswith(suffix)
endswith(s, suf) ==
  /\ Len(suf) <= Len(s)
  /\ SubSeq(s, Len(s) - Len(suf) + 1, Len(s)) = suf

\* str.rfind(c) + 1: the last position of c in s, 0 when absent
rfind(s, c) ==
  IF \E i \in 1..Len(s) : s[i] = c
  THEN CHOOSE i \in 1..Len(s) : s[i] = c /\ \A j \in (i+1)..Len(s) : s[j] # c
  ELSE 0

\* str.split(sep) for a one-character separator
RECURSIVE split(_, _)
split(s, sep) ==
  IF \A i \in 1..Len(s) : s[i] # sep THEN <<s>>
  ELSE LET k == CHOOSE i \in 1..Len(s) :
                   s[i] = sep /\ \A j \in 1..(i-1) : s[j] # sep
       IN <<SubSeq(s, 1, k - 1)>> \o split(SubSeq(s, k + 1, Len(s)), sep)

\* sep.join(parts)
RECURSIVE join(_, _)
join(sep, parts) ==
  IF parts = <<>> THEN <<>>
  ELSE IF Len(parts) = 1 THEN parts[1]
  ELSE parts[1] \o sep \o join(sep, Tail(parts))

\* the elements of a sequence
Range(s) == {s[i] : i \in 1..Len(s)}

\* sorted(S) for a set of strings: the ascending list of its elements
RECURSIVE sorted(_)
sorted(S) ==
  IF S = {} THEN <<>>
  ELSE LET m == CHOOSE x \in S : \A y \in S \ {x} : StrLess(x, y)
       IN <<m>> \o sorted(S \ {m})

(***************************************************************************)
(* The scanned tree and os.path.                                           *)
(***************************************************************************)
sep == "/"

\* the configured root of the music library (src/main.py:12), here /m
directory_path == <<"/", "m">>

\* the audio files of the tree, in os.walk order: /m/a/x.mp3, /m/a/x.flac,
\* /m/ab/y.mp3, /m/ab/z.ogg, /m/ab/y.flac
AudioTree ==
  << <<"/", "m", "/", "a", "/", "x", ".", "m", "p", "3">>,
     <<"/", "m", "/", "a", "/", "x", ".", "f", "l", "a", "c">>,
     <<"/", "m", "/", "a", "b", "/", "y", ".", "m", "p", "3">>,
     <<"/", "m", "/", "a", "b", "/", "z", ".", "o", "g", "g">>,
     <<"/", "m", "/", "a", "b", "/", "y", ".", "f", "l", "a", "c">> >>

\* the directories of the file system, as lists of path segments
\* (/, /m, /m/a, /m/ab); the working directory of the process is /
Dirs == { <<>>, <<<<"m">>>>, <<<<"m">>, <<"a">>>>, <<<<"m">>, <<"a", "b">>>> }

cwd == <<>>

\* the suffixes collect_audio_files accepts
AudioSuffixes ==
  { <<".", "f", "l", "a", "c">>, <<".", "m", "p", "3">>, <<".", "w", "a", "v">>, <<".", "o", "g", "g">>, <<".", "a", "a", "c">>, <<".", "w", "m", "a">> }

lrc_suffix == <<".", "l", "r", "c">>

\* the non-empty, non-"." segments of a path
Segments(p) ==
  SelectSeq(split(p, sep), LAMBDA c : c # <<>> /\ c # <<".">>)

\* os.path.isabs
isabs(p) == p # <<>> /\ p[1] = sep

\* os.path.isdir: the path, taken from the working directory when it is
\* relative, names a directory of the file system
isdir(p) ==
  /\ p # <<>>
  /\ (IF isabs(p) THEN Segments(p) ELSE cwd \o Segments(p)) \in Dirs

\* the longest common prefix of two lists
RECURSIVE CommonPrefix(_, _)
CommonPrefix(s1, s2) ==
  IF s1 = <<>> \/ s2 = <<>> \/ Head(s1) # Head(s2) THEN <<>>
  ELSE <<Head(s1)>> \o CommonPrefix(Tail(s1), Tail(s2))

\* os.path.commonpath([a, b]) raises ValueError when one path is absolute
\* and the other is relative
commonpath_raises(a, b) == isabs(a) # isabs(b)

\* os.path.commonpath([a, b]) when it returns: the common leading segments,
\* joined, behind the separator when the paths are absolute
commonpath(a, b) ==
  (IF isabs(a) THEN <<sep>> ELSE <<>>)
    \o join(<<sep>>, CommonPrefix(Segments(a), Segments(b)))

\* os.path.splitext(p)[0]
splitext_root(p) ==
  LET sepIndex == rfind(p, sep)
      dotIndex == rfind(p, ".")
  IN IF /\ dotIndex > sepIndex
        /\ \E i \in (sepIndex + 1)..(dotIndex - 1) : p[i] # "."
     THEN SubSeq(p, 1, dotIndex - 1)
     ELSE p

\* the sibling output file of an audio file (src/main.py:66)
new_file_path(file_path) == splitext_root(file_path) \o lrc_suffix

(***************************************************************************)
(* The cache store.                                                        *)
(***************************************************************************)
\* the cache file (src/main.py:13): whether it exists, and its text
NoFile == [exists |-> FALSE, text |-> <<>>]

FileWith(text) == [exists |-> TRUE, text |-> text]

\* load_cache: the stripped, non-empty lines of the cache file, the empty
\* list when there is no file
load_cache(file) ==
  IF ~file.exists THEN <<>>
  ELSE LET lines == split(file.text, "\n")
           stripped == [i \in 1..Len(lines) |-> strip(lines[i])]
       IN SelectSeq(stripped, LAMBDA l : l # <<>>)

\* a save that leaves out the newline after each item
RECURSIVE WriteLines_unterminated(_)
WriteLines_unterminated(items) ==
  IF items = <<>> THEN <<>>
  ELSE Head(items) \o WriteLines_unterminated(Tail(items))

\* the text save_cache writes: every distinct item, ascending, each
\* followed by a newline
RECURSIVE WriteLines(_)
WriteLines(items) ==
  IF items = <<>> THEN <<>>
  ELSE Head(items) \o <<"\n">> \o WriteLines(Tail(items))

save_cache(cache) == FileWith(WriteLines(sorted(Range(cache))))

\* is_in_cache: "True", "False", or "ValueError" when commonpath raises
RECURSIVE is_in_cache(_, _)
is_in_cache(file_path, cache_entries) ==
  IF cache_entries = <<>> THEN "False"
  ELSE LET entry == Head(cache_entries)
       IN IF isdir(entry)
          THEN IF commonpath_raises(file_path, entry) THEN "ValueError"
               ELSE IF commonpath(file_path, entry) = entry THEN "True"
               ELSE is_in_cache(file_path, Tail(cache_entries))
          ELSE IF file_path = entry THEN "True"
               ELSE is_in_cache(file_path, Tail(cache_entries))

\* collect_audio_files: the files of the tree whose name ends in an audio
\* suffix, in walk order
collect_audio_files(tree) ==
  SelectSeq(tree, LAMBDA file : \E suf \in AudioSuffixes : endswith(file, suf))

(***************************************************************************)
(* The collaborators: tag extraction and the lookup service.               *)
(***************************************************************************)
\* Python's None and a present value v, for optional values
None == <<>>
Some(v) == <<v>>

\* "not v" for an optional string: None or the empty string
Falsy(v) == v = None \/ v = Some("")

\* what TinyTag.get can do on a file: raise, or return the tags.  The
\* duration is in tenths of a second, None when TinyTag cannot tell it.
TinyTagResults ==
  { [raises |-> TRUE, album |-> None, title |-> None, artist |-> None,
     duration |-> None],
    [raises |-> FALSE, album |-> Some("Something Else"),
     title |-> Some("Waterloo Sunset"), artist |-> Some("The Kinks"),
     duration |-> Some(2119)],
    [raises |-> FALSE, album |-> None,
     title |-> Some("Waterloo Sunset"), artist |-> Some("The Kinks"),
     duration |-> Some(0)],
    [raises |-> FALSE, album |-> Some("Something Else"),
     title |-> Some("Waterloo Sunset"), artist |-> Some(""),
     duration |-> Some(2119)],
    [raises |-> FALSE, album |-> Some("Something Else"),
     title |-> None, artist |-> Some("The Kinks"),
     duration |-> Some(2119)],
    [raises |-> FALSE, album |-> Some("Something Else"),
     title |-> Some("Waterloo Sunset"), artist |-> Some("The Kinks"),
     duration |-> None] }

\* no exception
NoError == "no error"

\* get_song_details applied to what TinyTag.get did: the exception of
\* TinyTag, the TypeError of int(None), or (album, title, artist,
\* int(duration))
get_song_details(audio) ==
  IF audio.raises
  THEN [error |-> "TinyTagException", album |-> None, title |-> None,
        artist |-> None, duration |-> 0]
  ELSE IF audio.duration = None
  THEN [error |-> "TypeError", album |-> None, title |-> None,
        artist |-> None, duration |-> 0]
  ELSE [error |-> NoError, album |-> audio.album, title |-> audio.title,
        artist |-> audio.artist, duration |-> audio.duration[1] \div 10]

\* an executor future that holds nothing
NoDetails ==
  [error |-> "pending", album |-> None, title |-> None, artist |-> None,
   duration |-> 0]

\* what client.get can do: raise (transport error, timeout), or return a
\* response with a status and a body that is a JSON object (with optional
\* string fields syncedLyrics and plainLyrics) or is not one
Responses ==
  { [raises |-> TRUE, status_code |-> 0, json |-> FALSE,
     syncedLyrics |-> None, plainLyrics |-> None],
    [raises |-> FALSE, status_code |-> 404, json |-> TRUE,
     syncedLyrics |-> None, plainLyrics |-> Some("plain")],
    [raises |-> FALSE, status_code |-> 200, json |-> FALSE,
     syncedLyrics |-> None, plainLyrics |-> None],
    [raises |-> FALSE, status_code |-> 200, json |-> TRUE,
     syncedLyrics |-> None, plainLyrics |-> Some("")],
    [raises |-> FALSE, status_code |-> 200, json |-> TRUE,
     syncedLyrics |-> Some(""), plainLyrics |-> Some("plain")],
    [raises |-> FALSE, status_code |-> 200, json |-> TRUE,
     syncedLyrics |-> Some("[00:01.00]synced"), plainLyrics |-> Some("plain")] }

NoResponse ==
  [raises |-> FALSE, status_code |-> 0, json |-> FALSE,
   syncedLyrics |-> None, plainLyrics |-> None]

\* a client that reads the body whatever the status
get_lyrics_any_status(r) ==
  IF r.raises THEN None
  ELSE IF ~r.json THEN None
  ELSE LET lyrics == IF Falsy(r.syncedLyrics) THEN r.plainLyrics
                     ELSE r.syncedLyrics
       IN IF Falsy(lyrics) THEN None ELSE lyrics

\* a client that prefers the plain lyrics
get_lyrics_plain_first(r) ==
  IF r.raises THEN None
  ELSE IF r.status_code # 200 THEN None
  ELSE IF ~r.json THEN None
  ELSE LET lyrics == IF Falsy(r.plainLyrics) THEN r.syncedLyrics
                     ELSE r.plainLyrics
       IN IF Falsy(lyrics) THEN None ELSE lyrics

\* get_lyrics on the outcome r of client.get: the lyrics, or None
get_lyrics(r) ==
  IF r.raises THEN None
  ELSE IF r.status_code # 200 THEN None
  ELSE IF ~r.json THEN None
  ELSE LET lyrics == IF Falsy(r.syncedLyrics) THEN r.plainLyrics
                     ELSE r.syncedLyrics
       IN IF Falsy(lyrics) THEN None ELSE lyrics

\* how open(new_file_path, 'w') followed by f.write can end: both succeed,
\* open fails (nothing changes), or write fails after open has truncated
WriteOutcomes == {"ok", "open fails", "write fails"}

\* an output file that does not exist, and one with a given text
NoLrc == [exists |-> FALSE, text |-> ""]
LrcWith(text) == [exists |-> TRUE, text |-> text]

(***************************************************************************)
(* The state of the program and of the files it reads and writes.          *)
(***************************************************************************)
VARIABLES
  run,              \* which run of the program this is
  main_pc,          \* where main_async is
  cache_file,       \* lyrics_cache.txt on disk
  lrc,              \* the .lrc files on disk, by path
  audio_files,      \* main_async: the collected files
  total_files,      \* main_async: len(audio_files)
  cache_entries,    \* main_async: the list load_cache returned, appended to
  Found_lyrics,     \* main_async: counter
  Missing_lyrics,   \* main_async: counter
  idx,              \* main_async: number of outcomes taken from as_completed
  sem,              \* the value of asyncio.Semaphore(MAX_CONCURRENCY)
  task_pc,          \* where each process_file task is
  details,          \* the executor future of each task's get_song_details
  response,         \* what client.get did for each task, once it has
  result,           \* what each process_file task returned
  completed,        \* the tasks as_completed has yet to yield, oldest first
  requested,        \* the tasks that have called client.get in this run
  cache_at_start,   \* lyrics_cache.txt as it was when this run started
  cache_writes,     \* how often this run has written lyrics_cache.txt
  prev_resolved     \* the previous run left no file "missing" or "error"

vars ==
  << run, main_pc, cache_file, lrc, audio_files, total_files, cache_entries,
     Found_lyrics, Missing_lyrics, idx, sem, task_pc, details, response,
     result, completed, requested, cache_at_start, cache_writes,
     prev_resolved >>

\* the audio files of the scanned tree and their output files
TreeAudio == SubSeq(AudioTree, 1, NumFiles)

LrcPaths == {new_file_path(TreeAudio[i]) : i \in 1..NumFiles}

\* a list of the elements of a set of strings
RECURSIVE Listing(_)
Listing(S) ==
  IF S = {} THEN <<>>
  ELSE LET x == CHOOSE y \in S : TRUE IN <<x>> \o Listing(S \ {x})

\* every file under directory_path: the audio files and the existing
\* output files
Tree(lrc_files) ==
  TreeAudio \o Listing({p \in LrcPaths : lrc_files[p].exists})

\* the cache files a first run may find: none; a file entry; a directory
\* entry; a directory entry with a trailing separator; a directory entry
\* before the relative directory "."; the relative directory "." alone;
\* two file entries, out of order, one of them twice
InitialCacheFiles ==
  { NoFile,
    FileWith(<<"/", "m", "/", "a", "/", "x", ".", "m", "p", "3", "\n">>),
    FileWith(<<"/", "m", "/", "a", "\n">>),
    FileWith(<<"/", "m", "/", "a", "/", "\n">>),
    FileWith(<<"/", "m", "\n", ".", "\n">>),
    FileWith(<<".", "\n">>),
    FileWith(<<"/", "m", "/", "a", "/", "x", ".", "m", "p", "3", "\n", "/", "m", "/", "a", "/", "x", ".", "f", "l", "a", "c", "\n", "/", "m", "/", "a", "/", "x", ".", "m", "p", "3", "\n">>) }

Tasks == 1..Len(audio_files)

NoResult == <<>>

\* the state of the tasks before main_async has created them
NoTasks ==
  /\ audio_files' = <<>>
  /\ total_files' = 0
  /\ cache_entries' = <<>>
  /\ Found_lyrics' = 0
  /\ Missing_lyrics' = 0
  /\ idx' = 0
  /\ sem' = MAX_CONCURRENCY
  /\ task_pc' = <<>>
  /\ details' = <<>>
  /\ response' = <<>>
  /\ result' = <<>>
  /\ completed' = <<>>

Init ==
  /\ run = 1
  /\ main_pc = "start"
  /\ cache_file \in InitialCacheFiles
  /\ lrc \in [LrcPaths -> {NoLrc, LrcWith("old")}]
  /\ audio_files = <<>>
  /\ total_files = 0
  /\ cache_entries = <<>>
  /\ Found_lyrics = 0
  /\ Missing_lyrics = 0
  /\ idx = 0
  /\ sem = MAX_CONCURRENCY
  /\ task_pc = <<>>
  /\ details = <<>>
  /\ response = <<>>
  /\ result = <<>>
  /\ completed = <<>>
  /\ requested = {}
  /\ cache_at_start = cache_file
  /\ cache_writes = 0
  /\ prev_resolved = FALSE

(***************************************************************************)
(* main_async up to the loop, and the tasks.                               *)
(***************************************************************************)
\* every task has run up to its first await.  as_completed creates all the
\* tasks before main_async awaits the first of them, and the event loop
\* runs the first step of each before any callback that step schedules.
AllStarted == \A i \in Tasks : task_pc[i] # "new"

\* main_async, lines 103-116: collect the files, load the cache, create
\* the limiter and one task per file.  Reading an existing cache file can
\* fail, and nothing catches that.
MainStart ==
  /\ main_pc = "start"
  /\ \E readable \in BOOLEAN :
       IF cache_file.exists /\ ~readable
       THEN /\ main_pc' = "crashed"
            /\ NoTasks
       ELSE /\ main_pc' = "loop"
            /\ audio_files' = collect_audio_files(Tree(lrc))
            /\ total_files' = Len(audio_files')
            /\ cache_entries' = load_cache(cache_file)
            /\ Found_lyrics' = 0
            /\ Missing_lyrics' = 0
            /\ idx' = 0
            /\ sem' = MAX_CONCURRENCY
            /\ task_pc' = [i \in 1..total_files' |-> "new"]
            /\ details' = [i \in 1..total_files' |-> NoDetails]
            /\ response' = [i \in 1..total_files' |-> NoResponse]
            /\ result' = [i \in 1..total_files' |-> NoResult]
            /\ completed' = <<>>
  /\ UNCHANGED << run, cache_file, lrc, requested, cache_at_start,
                  cache_writes, prev_resolved >>

\* a task returns (or raises): it is done, and as_completed will yield it
Return(i, pc, res) ==
  /\ task_pc' = [task_pc EXCEPT ![i] = pc]
  /\ result' = [result EXCEPT ![i] = res]
  /\ completed' = Append(completed, i)

\* an exception that leaves process_file instead of being caught
on_exception_propagates(i, file_path, e) ==
  Return(i, "raised", <<e, file_path>>)

\* the except clauses of process_file (lines 78-79, 91-92): the task
\* returns "error" with the path and the exception
on_exception(i, file_path, e) ==
  Return(i, "returned", <<"error", <<file_path, e>>>>)

\* a limiter that lets every task in
sem_free_unlimited == TRUE

\* "async with sem" does not have to wait: the limiter has a free slot
sem_free == sem > 0

\* "async with sem" when a slot is free: take it and call client.get
EnterLookup(i) ==
  /\ sem' = sem - 1
  /\ task_pc' = [task_pc EXCEPT ![i] = "lookup"]
  /\ requested' = requested \cup {i}

\* process_file, lines 63-75: the cache check, the existing-output check,
\* and the hand-over of get_song_details to the executor
process_file_start(i) ==
  LET file_path == audio_files[i]
      cached == is_in_cache(file_path, cache_entries)
  IN /\ main_pc = "loop"
     /\ task_pc[i] = "new"
     /\ IF cached = "ValueError"
        THEN Return(i, "raised", <<"ValueError", file_path>>)
        ELSE IF cached = "True"
        THEN Return(i, "returned", <<"cached", file_path>>)
        ELSE IF lrc[new_file_path(file_path)].exists
        THEN Return(i, "returned", <<"already_exists", file_path>>)
        ELSE /\ task_pc' = [task_pc EXCEPT ![i] = "executor"]
             /\ UNCHANGED << result, completed >>
     /\ UNCHANGED << run, main_pc, cache_file, lrc, audio_files, total_files,
                     cache_entries, Found_lyrics, Missing_lyrics, idx, sem,
                     details, response, requested, cache_at_start,
                     cache_writes, prev_resolved >>

\* the executor thread runs get_song_details (lines 58-60) on the file
executor_runs(i) ==
  /\ main_pc = "loop"
  /\ AllStarted
  /\ task_pc[i] = "executor"
  /\ \E audio \in TinyTagResults :
       details' = [details EXCEPT ![i] = get_song_details(audio)]
  /\ task_pc' = [task_pc EXCEPT ![i] = "extracted"]
  /\ UNCHANGED << run, main_pc, cache_file, lrc, audio_files, total_files,
                  cache_entries, Found_lyrics, Missing_lyrics, idx, sem,
                  response, result, completed, requested, cache_at_start,
                  cache_writes, prev_resolved >>

\* a task that goes to the lookup whatever the tags hold
tags_incomplete_never(d) == FALSE

\* a test of the tags that looks at the artist only
tags_incomplete_artist_only(d) == Falsy(d.artist)

\* process_file, line 76: "not artist or not title"
tags_incomplete(d) == Falsy(d.artist) \/ Falsy(d.title)

\* process_file, lines 73-82: the task resumes with the executor's result,
\* returns "error" or "missing", or goes on to the limiter
process_file_extracted(i) ==
  LET file_path == audio_files[i]
      d == details[i]
  IN /\ main_pc = "loop"
     /\ AllStarted
     /\ task_pc[i] = "extracted"
     /\ IF d.error # NoError
        THEN /\ on_exception(i, file_path, d.error)
             /\ details' = [details EXCEPT ![i] = NoDetails]
             /\ UNCHANGED << sem, requested >>
        ELSE IF tags_incomplete(d)
        THEN /\ Return(i, "returned", <<"missing", file_path>>)
             /\ details' = [details EXCEPT ![i] = NoDetails]
             /\ UNCHANGED << sem, requested >>
        ELSE IF sem_free
        THEN /\ EnterLookup(i)
             /\ details' = [details EXCEPT ![i] = NoDetails]
             /\ UNCHANGED << result, completed >>
        ELSE /\ task_pc' = [task_pc EXCEPT ![i] = "wait_sem"]
             /\ UNCHANGED << details, sem, requested, result, completed >>
     /\ UNCHANGED << run, main_pc, cache_file, lrc, audio_files, total_files,
                     cache_entries, Found_lyrics, Missing_lyrics, idx,
                     response, cache_at_start, cache_writes, prev_resolved >>

\* process_file, lines 81-82: a task that waited for the limiter gets a slot
process_file_acquired(i) ==
  /\ main_pc = "loop"
  /\ AllStarted
  /\ task_pc[i] = "wait_sem"
  /\ sem_free
  /\ EnterLookup(i)
  /\ details' = [details EXCEPT ![i] = NoDetails]
  /\ UNCHANGED << run, main_pc, cache_file, lrc, audio_files, total_files,
                  cache_entries, Found_lyrics, Missing_lyrics, idx,
                  response, result, completed, cache_at_start, cache_writes,
                  prev_resolved >>

\* the request of get_lyrics (line 46) ends: client.get raises or returns
network_responds(i) ==
  /\ main_pc = "loop"
  /\ AllStarted
  /\ task_pc[i] = "lookup"
  /\ \E r \in Responses : response' = [response EXCEPT ![i] = r]
  /\ task_pc' = [task_pc EXCEPT ![i] = "responded"]
  /\ UNCHANGED << run, main_pc, cache_file, lrc, audio_files, total_files,
                  cache_entries, Found_lyrics, Missing_lyrics, idx, sem,
                  details, result, completed, requested, cache_at_start,
                  cache_writes, prev_resolved >>

\* process_file, lines 82-92: get_lyrics returns, the slot is given back,
\* and the task returns "missing" or writes the output file
process_file_looked_up(i) ==
  LET file_path == audio_files[i]
      lyrics == get_lyrics(response[i])
      out == new_file_path(file_path)
  IN /\ main_pc = "loop"
     /\ AllStarted
     /\ task_pc[i] = "responded"
     /\ sem' = sem + 1
     /\ IF lyrics = None
        THEN /\ Return(i, "returned", <<"missing", file_path>>)
             /\ lrc' = lrc
        ELSE \E w \in WriteOutcomes :
               CASE w = "ok" ->
                      /\ lrc' = [lrc EXCEPT ![out] = LrcWith(lyrics[1])]
                      /\ Return(i, "returned", <<"found", file_path>>)
                 [] w = "open fails" ->
                      /\ lrc' = lrc
                      /\ on_exception(i, file_path, "OSError")
                 [] w = "write fails" ->
                      /\ lrc' = [lrc EXCEPT ![out] = LrcWith("")]
                      /\ on_exception(i, file_path, "OSError")
     /\ UNCHANGED << run, main_pc, cache_file, audio_files, total_files,
                     cache_entries, Found_lyrics, Missing_lyrics, idx,
                     details, response, requested, cache_at_start,
                     cache_writes, prev_resolved >>

(***************************************************************************)
(* The loop of main_async, the end of the run, and what ends it early.     *)
(***************************************************************************)
\* a loop body that forgets the files whose output file already existed
caches_result_found_only(tag) == tag = "found"

\* a loop body that also remembers the files without lyrics
caches_result_and_missing(tag) ==
  tag \in {"already_exists", "found", "missing"}

\* main_async, lines 123-128: the results whose path is appended to
\* cache_entries
caches_result(tag) == tag \in {"already_exists", "found"}

\* a save that does not wait for the loop
loop_exhausted_at_once == TRUE

\* main_async, line 117: as_completed has yielded every task
loop_exhausted == idx = total_files

\* a loop body that remembers the directory of the file
cached_entry_directory(res) == SubSeq(res[2], 1, rfind(res[2], sep) - 1)

\* main_async, lines 124 and 127: what is appended to cache_entries
cached_entry(res) == res[2]

\* a loop body whose "error" branch counts nothing
counts_missing_without_error(tag) == tag = "missing"

\* main_async, lines 130-135: the results that add one to Missing_lyrics
counts_missing(tag) == tag \in {"missing", "error"}

\* main_async, lines 117-135: as_completed yields the oldest finished task
\* and the loop body handles its result.  Awaiting a task that raised
\* raises in main_async, which nothing catches: the run ends there and the
\* remaining tasks are cancelled.
main_async_loop ==
  /\ main_pc = "loop"
  /\ AllStarted
  /\ completed # <<>>
  /\ LET i == Head(completed) IN
       IF task_pc[i] = "raised"
       THEN /\ main_pc' = "crashed"
            /\ NoTasks
       ELSE /\ main_pc' = main_pc
            /\ completed' = Tail(completed)
            /\ task_pc' = [task_pc EXCEPT ![i] = "consumed"]
            /\ idx' = idx + 1
            /\ Found_lyrics' =
                 IF result[i][1] = "found" THEN Found_lyrics + 1
                 ELSE Found_lyrics
            /\ Missing_lyrics' =
                 IF counts_missing(result[i][1])
                 THEN Missing_lyrics + 1
                 ELSE Missing_lyrics
            /\ cache_entries' =
                 IF caches_result(result[i][1])
                 THEN Append(cache_entries, cached_entry(result[i]))
                 ELSE cache_entries
            /\ UNCHANGED << audio_files, total_files, sem, details, response,
                            result >>
  /\ UNCHANGED << run, cache_file, lrc, requested, cache_at_start,
                  cache_writes, prev_resolved >>

\* main_async, lines 137-142: every outcome has been taken; save the cache
\* and log the summary
main_async_finish ==
  /\ main_pc = "loop"
  /\ AllStarted
  /\ loop_exhausted
  /\ cache_file' = save_cache(cache_entries)
  /\ cache_writes' = cache_writes + 1
  /\ main_pc' = "done"
  /\ UNCHANGED << run, lrc, audio_files, total_files, cache_entries,
                  Found_lyrics, Missing_lyrics, idx, sem, task_pc, details,
                  response, result, completed, requested, cache_at_start,
                  prev_resolved >>

\* lines 148-151: the user interrupts the run; asyncio.run cancels the
\* tasks and main() raises KeyboardInterrupt
KeyboardInterrupt ==
  /\ main_pc \in {"start", "loop"}
  /\ main_pc' = "interrupted"
  /\ NoTasks
  /\ UNCHANGED << run, cache_file, lrc, requested, cache_at_start,
                  cache_writes, prev_resolved >>

\* the program is run again on the same directory after a run that
\* reached its end
next_run ==
  /\ main_pc = "done"
  /\ run < MaxRuns
  /\ run' = run + 1
  /\ main_pc' = "start"
  /\ NoTasks
  /\ requested' = {}
  /\ cache_at_start' = cache_file
  /\ cache_writes' = 0
  /\ prev_resolved' =
       \A i \in Tasks : result[i][1] \in {"cached", "already_exists", "found"}
  /\ UNCHANGED << cache_file, lrc >>

Next ==
  \/ MainStart
  \/ \E i \in Tasks : process_file_start(i)
  \/ \E i \in Tasks : executor_runs(i)
  \/ \E i \in Tasks : process_file_extracted(i)
  \/ \E i \in Tasks : process_file_acquired(i)
  \/ \E i \in Tasks : network_responds(i)
  \/ \E i \in Tasks : process_file_looked_up(i)
  \/ main_async_loop
  \/ main_async_finish
  \/ KeyboardInterrupt
  \/ next_run

Spec == Init /\ [][Next]_vars

(***************************************************************************)
(* Properties.                                                             *)
(***************************************************************************)
\* the tasks that are inside "async with sem", i.e. in get_lyrics
InLookup == {i \in Tasks : task_pc[i] \in {"lookup", "responded"}}

\* C1: at most MAX_CONCURRENCY tasks are inside the get_lyrics step, and
\* the slots in use are exactly those of the tasks in that step: a task in
\* any other step holds none.
C1_LookupsBounded ==
  /\ Cardinality(InLookup) <= MAX_CONCURRENCY
  /\ sem = MAX_CONCURRENCY - Cardinality(InLookup)

\* the limiter is full and a task with its tags read is kept waiting
C1_Witness ==
  /\ Cardinality(InLookup) = MAX_CONCURRENCY
  /\ \E i \in Tasks : task_pc[i] = "wait_sem"

\* a task has returned a result (as_completed may or may not have yielded it)
Returned(i) == task_pc[i] \in {"returned", "consumed"}

\* the path of a file, from the root of the file system
AbsSegments(p) == IF isabs(p) THEN Segments(p) ELSE cwd \o Segments(p)

\* path p lies under directory d
Under(p, d) ==
  /\ isdir(d)
  /\ Len(AbsSegments(d)) < Len(AbsSegments(p))
  /\ SubSeq(AbsSegments(p), 1, Len(AbsSegments(d))) = AbsSegments(d)

\* the entries this run loaded
Loaded == load_cache(cache_at_start)

\* path p is an entry of the loaded cache or lies under one
InLoadedCache(p) ==
  \E k \in 1..Len(Loaded) : Loaded[k] = p \/ Under(p, Loaded[k])

\* C2: a file that is in the loaded cache verbatim, or lies under a
\* directory of the loaded cache, returns "cached" at once: it never gets
\* to the executor, the limiter, the lookup or the write.
C2_CachedShortCircuit ==
  \A i \in Tasks :
    (InLoadedCache(audio_files[i]) /\ task_pc[i] # "new")
      => /\ Returned(i)
         /\ result[i] = <<"cached", audio_files[i]>>
         /\ i \notin requested

\* the lines of the cache file
CacheLines == Range(split(cache_file.text, "\n"))

\* a file whose result is "already_exists" has made no request, and the
\* cache file a finished run has written names it
AlreadyExistsIsCachedUnqueried ==
  \A i \in Tasks :
    (Returned(i) /\ result[i][1] = "already_exists")
      => /\ i \notin requested
         /\ result[i][2] = audio_files[i]
         /\ main_pc = "done" => audio_files[i] \in CacheLines

\* C3: a file whose output file exists returns "already_exists" from its
\* first step, makes no request, and is in the cache the run saves.
C3_ExistingOutput ==
  /\ [][\A i \in Tasks :
          (/\ main_pc' = "loop"
           /\ task_pc[i] = "new"
           /\ task_pc'[i] # "new"
           /\ lrc[new_file_path(audio_files[i])].exists)
            => result'[i] = <<"already_exists", audio_files[i]>>]_vars
  /\ []AlreadyExistsIsCachedUnqueried

\* C3 as amended: a file whose output file exists and for which the cache
\* check answers False returns "already_exists" from its first step, makes
\* no request, and is in the cache the run saves when it reaches its end.
C3_ExistingOutputUncached ==
  /\ [][\A i \in Tasks :
          (/\ main_pc' = "loop"
           /\ task_pc[i] = "new"
           /\ task_pc'[i] # "new"
           /\ lrc[new_file_path(audio_files[i])].exists
           /\ is_in_cache(audio_files[i], cache_entries) = "False")
            => result'[i] = <<"already_exists", audio_files[i]>>]_vars
  /\ []AlreadyExistsIsCachedUnqueried

\* a run has ended that found an output file in place for a file the
\* loaded cache did not name
C3_Witness ==
  /\ main_pc = "done"
  /\ \E i \in Tasks :
       /\ result[i][1] = "already_exists"
       /\ audio_files[i] \notin Range(Loaded)
       /\ audio_files[i] \in CacheLines

\* C4: in a run that follows a finished run on the same directory no task
\* makes a request, and every result is "cached" or "already_exists".
C4_SecondRunNoLookups ==
  run > 1 =>
    /\ requested = {}
    /\ \A i \in Tasks :
         Returned(i) => result[i][1] \in {"cached", "already_exists"}

\* C4 as amended: in a run that follows a finished run in which no file
\* was "missing" or "error", no task makes a request or reads tags, and
\* every result is "cached" or "already_exists".
C4_SecondRunNoLookupsIfResolved ==
  (run > 1 /\ prev_resolved) =>
    /\ requested = {}
    /\ \A i \in Tasks :
         /\ task_pc[i] \in {"new", "raised", "returned", "consumed"}
         /\ Returned(i) => result[i][1] \in {"cached", "already_exists"}

\* a second run has ended, after a first run that found lyrics, with a
\* file cached by its own entry and without a request
C4_Witness ==
  /\ run > 1
  /\ prev_resolved
  /\ main_pc = "done"
  /\ requested = {}
  /\ \E i \in Tasks :
       /\ result[i][1] = "cached"
       /\ lrc[new_file_path(audio_files[i])].exists
       /\ lrc[new_file_path(audio_files[i])].text \notin {"old", ""}

\* the other tasks are where they were, with what they had
OthersUntouched(i) ==
  \A j \in Tasks \ {i} :
    /\ task_pc'[j] = task_pc[j]
    /\ result'[j] = result[j]
    /\ details'[j] = details[j]
    /\ response'[j] = response[j]

\* C5: when get_song_details or the write of the output file raises, the
\* task returns "error" with its path and the exception; it does not
\* raise, the other tasks are not touched, and main_async takes the result
\* as one more missing file and stays in its loop.
C5_FailureBecomesError ==
  /\ [][\A i \in Tasks :
          (/\ main_pc' = "loop"
           /\ task_pc[i] = "extracted"
           /\ task_pc'[i] # "extracted"
           /\ details[i].error # NoError)
            => /\ task_pc'[i] = "returned"
               /\ result'[i] = <<"error", <<audio_files[i], details[i].error>>>>
               /\ OthersUntouched(i)]_vars
  /\ [][\A i \in Tasks :
          (/\ main_pc' = "loop"
           /\ task_pc[i] = "responded"
           /\ task_pc'[i] # "responded"
           /\ get_lyrics(response[i]) # None
           /\ lrc'[new_file_path(audio_files[i])]
                # LrcWith(get_lyrics(response[i])[1]))
            => /\ task_pc'[i] = "returned"
               /\ result'[i] = <<"error", <<audio_files[i], "OSError">>>>
               /\ OthersUntouched(i)]_vars
  /\ [][\A i \in Tasks :
          (/\ main_pc = "loop"
           /\ main_pc' # "interrupted"
           /\ completed # <<>>
           /\ Head(completed) = i
           /\ Len(completed') < Len(completed)
           /\ result[i][1] = "error")
            => /\ main_pc' = "loop"
               /\ task_pc'[i] = "consumed"
               /\ Missing_lyrics' = Missing_lyrics + 1
               /\ Found_lyrics' = Found_lyrics
               /\ cache_entries' = cache_entries
               /\ OthersUntouched(i)]_vars

\* a run has ended in which one file's tags could not be read or its
\* output not written, and the other file got its lyrics
C5_Witness ==
  /\ main_pc = "done"
  /\ \E i, j \in Tasks :
       /\ result[i][1] = "error"
       /\ result[j][1] = "found"
       /\ Missing_lyrics = 1
       /\ Found_lyrics = 1

\* C6: once main_async is in its loop, only a user interrupt ends the run
\* before save_cache and the summary.
C6_OnlyInterruptEndsEarly ==
  [][main_pc = "loop" => main_pc' \in {"loop", "done", "interrupted"}]_vars

\* C7: load_cache never fails the run: main_async gets from its start to
\* its loop, with no entries when there is no cache file, unless the user
\* interrupts.
C7_LoadNeverFails ==
  [][main_pc = "start"
       => /\ main_pc' \in {"loop", "interrupted"}
          /\ (main_pc' = "loop" /\ ~cache_file.exists)
               => cache_entries' = <<>>]_vars

\* client.get raised, or the response is not a 200 with a JSON object
LookupFailed(r) == r.raises \/ r.status_code # 200 \/ ~r.json

C9_ExistingOutputNeverWritten ==
  [][\A p \in LrcPaths : lrc[p].exists => lrc'[p] = lrc[p]]_vars

\* C10: the cache file is as it was at the start of the run until
\* main_async has taken the result of every collected file; then
\* save_cache writes it, once.
C10_CacheWrittenOnceAtEnd ==
  /\ cache_writes <= 1
  /\ main_pc # "done" => (cache_writes = 0 /\ cache_file = cache_at_start)
  /\ main_pc = "done"
       => /\ cache_writes = 1
          /\ total_files = Len(audio_files)
          /\ idx = total_files
          /\ completed = <<>>
          /\ \A i \in Tasks : task_pc[i] = "consumed"
          /\ cache_file = save_cache(cache_entries)

\* a run has ended and has changed the cache file
C10_Witness ==
  /\ main_pc = "done"
  /\ total_files > 0
  /\ cache_file # cache_at_start

\* the lines of a text file whose every line ends in a newline
TextLines(text) ==
  LET pieces == split(text, "\n") IN SubSeq(pieces, 1, Len(pieces) - 1)

\* a list of strings is strictly ascending: sorted, and without duplicates
Ascending(list) ==
  \A k \in 1..(Len(list) - 1) : StrLess(list[k], list[k + 1])

\* the paths of the files whose result in this run is "found" or
\* "already_exists"
ResolvedPaths ==
  {audio_files[i] : i \in {j \in Tasks : /\ Returned(j)
                                         /\ result[j][1] \in {"found", "already_exists"}}}

\* C11: the cache file a finished run has written lists, each on a line of
\* its own, in strictly ascending order, exactly the entries the run loaded
\* and the paths of its "found" and "already_exists" files; what the loop
\* has appended are paths of collected files, none of them a directory.
C11_SavedCacheContent ==
  /\ main_pc = "done"
       => /\ cache_file.exists
          /\ cache_file.text = <<>> \/ cache_file.text[Len(cache_file.text)] = "\n"
          /\ Ascending(TextLines(cache_file.text))
          /\ Range(TextLines(cache_file.text)) = Range(Loaded) \cup ResolvedPaths
  /\ main_pc \in {"loop", "done"}
       => /\ Len(cache_entries) >= Len(Loaded)
          /\ SubSeq(cache_entries, 1, Len(Loaded)) = Loaded
          /\ \A k \in (Len(Loaded) + 1)..Len(cache_entries) :
               /\ ~isdir(cache_entries[k])
               /\ \E i \in Tasks :
                    /\ cache_entries[k] = audio_files[i]
                    /\ task_pc[i] = "consumed"
                    /\ result[i][1] \in {"found", "already_exists"}

\* a run has ended that loaded an entry, found lyrics for one file and
\* none for the other, and saved the first one's path only
C11_Witness ==
  /\ main_pc = "done"
  /\ Loaded # <<>>
  /\ \E i, j \in Tasks :
       /\ result[i][1] = "found"
       /\ result[j][1] \in {"missing", "error"}
       /\ audio_files[i] \notin Range(Loaded)
       /\ audio_files[i] \in Range(TextLines(cache_file.text))
       /\ audio_files[j] \notin Range(TextLines(cache_file.text))

\* the number of files the loop has taken with one of the given results
Outcomes(tags) ==
  Cardinality({i \in Tasks : task_pc[i] = "consumed" /\ result[i][1] \in tags})

\* C12: the total of the summary is the number of audio files discovered,
\* its found counter the number of "found" files and its missing counter
\* the number of "missing" plus the number of "error" files; "cached" and
\* "already_exists" add to neither, so that found + missing + cached +
\* already_exists = total.  The counters agree with the results taken so
\* far throughout the loop.
C12_SummaryCounters ==
  /\ main_pc \in {"loop", "done"}
       => /\ total_files = Len(collect_audio_files(Tree(lrc)))
          /\ total_files = Len(audio_files)
          /\ Found_lyrics = Outcomes({"found"})
          /\ Missing_lyrics = Outcomes({"missing"}) + Outcomes({"error"})
          /\ idx = Found_lyrics + Missing_lyrics
                     + Outcomes({"cached"}) + Outcomes({"already_exists"})
  /\ main_pc = "done"
       => /\ \A i \in Tasks : task_pc[i] = "consumed"
          /\ Found_lyrics + Missing_lyrics
               + Outcomes({"cached"}) + Outcomes({"already_exists"}) = total_files

\* a run has ended with one file in "error" and the other "cached" or
\* "already_exists": the summary reads 2 files, 0 found, 1 missing
C12_Witness ==
  /\ main_pc = "done"
  /\ total_files = 2
  /\ Outcomes({"error"}) = 1
  /\ Outcomes({"cached", "already_exists"}) = 1
  /\ Found_lyrics = 0
  /\ Missing_lyrics = 1

(***************************************************************************)
(* The cache store on its own: save_cache of a list, load_cache of the     *)
(* file, save_cache of what was loaded.                                    *)
(***************************************************************************)
\* the longest list handed to save_cache
MaxEntries == 2

\* path strings: /m/a, /m/b, /m, "/m/a b", "/m/a " (a directory whose name
\* ends in a space), " m" (a relative path that begins with a space) and
\* a file whose name holds a newline
CachePaths ==
  { <<"/", "m", "/", "a">>,
    <<"/", "m", "/", "b">>,
    <<"/", "m">>,
    <<"/", "m", "/", "a", " ", "b">>,
    <<"/", "m", "/", "a", " ">>,
    <<" ", "m">>,
    <<"/", "m", "/", "a", "\n", "b">> }

\* the lists of at most MaxEntries paths, in any order, with duplicates
CacheLists == UNION {[1..n -> CachePaths] : n \in 0..MaxEntries}

\* a list of paths is about to be saved; there is no cache file yet
InitCache ==
  /\ run = 1
  /\ main_pc = "save"
  /\ cache_file = NoFile
  /\ lrc = [p \in LrcPaths |-> NoLrc]
  /\ audio_files = <<>>
  /\ total_files = 0
  /\ cache_entries \in CacheLists
  /\ Found_lyrics = 0
  /\ Missing_lyrics = 0
  /\ idx = 0
  /\ sem = MAX_CONCURRENCY
  /\ task_pc = <<>>
  /\ details = <<>>
  /\ response = <<>>
  /\ result = <<>>
  /\ completed = <<>>
  /\ requested = {}
  /\ cache_at_start = NoFile
  /\ cache_writes = 0
  /\ prev_resolved = FALSE

\* save_cache(x)
cache_saved ==
  /\ main_pc = "save"
  /\ cache_file' = save_cache(cache_entries)
  /\ cache_writes' = cache_writes + 1
  /\ main_pc' = "load"
  /\ UNCHANGED << run, lrc, audio_files, total_files, cache_entries,
                  Found_lyrics, Missing_lyrics, idx, sem, task_pc, details,
                  response, result, completed, requested, cache_at_start,
                  prev_resolved >>

\* load_cache() of the file just saved
cache_loaded ==
  /\ main_pc = "load"
  /\ cache_entries' = load_cache(cache_file)
  /\ cache_at_start' = cache_file
  /\ main_pc' = "save_again"
  /\ UNCHANGED << run, cache_file, lrc, audio_files, total_files,
                  Found_lyrics, Missing_lyrics, idx, sem, task_pc, details,
                  response, result, completed, requested, cache_writes,
                  prev_resolved >>

\* save_cache of the loaded list
cache_saved_again ==
  /\ main_pc = "save_again"
  /\ cache_file' = save_cache(cache_entries)
  /\ cache_writes' = cache_writes + 1
  /\ main_pc' = "end"
  /\ UNCHANGED << run, lrc, audio_files, total_files, cache_entries,
                  Found_lyrics, Missing_lyrics, idx, sem, task_pc, details,
                  response, result, completed, requested, cache_at_start,
                  prev_resolved >>

NextCache ==
  \/ cache_saved
  \/ cache_loaded
  \/ cache_saved_again

SpecCache == InitCache /\ [][NextCache]_vars

\* C13: for every list x of path strings, load_cache after save_cache(x)
\* returns the distinct elements of x in ascending order, and saving what
\* was loaded leaves the cache file as save_cache(x) wrote it.
C13_CacheRoundTrip ==
  [][ /\ (main_pc = "load" /\ main_pc' = "save_again")
        => cache_entries' = sorted(Range(cache_entries))
      /\ (main_pc = "save_again" /\ main_pc' = "end")
        => cache_file' = cache_file ]_vars

\* the tags came without an artist or without a title (None or "")
NoArtistOrNoTitle(d) ==
  \/ d.artist = None
  \/ d.artist = Some("")
  \/ d.title = None
  \/ d.title = Some("")

\* C14: a task that is past the cache check and the output check and whose
\* extraction returned tags without an artist or without a title returns
\* "missing" in its next step; that step takes no limiter slot, issues no
\* request and writes no output file.  A file that is "missing" without
\* ever having entered the lookup has no response.
C14_NoArtistOrTitleIsMissing ==
  /\ [][\A i \in Tasks :
          (/\ main_pc' = "loop"
           /\ task_pc[i] = "extracted"
           /\ task_pc'[i] # "extracted"
           /\ details[i].error = NoError
           /\ NoArtistOrNoTitle(details[i]))
            => /\ task_pc'[i] = "returned"
               /\ result'[i] = <<"missing", audio_files[i]>>
               /\ sem' = sem
               /\ requested' = requested
               /\ i \notin requested
               /\ response'[i] = NoResponse
               /\ lrc' = lrc]_vars
  /\ [](\A i \in Tasks :
          (/\ main_pc \in {"loop", "done"}
           /\ Returned(i)
           /\ result[i][1] = "missing"
           /\ i \notin requested)
            => response[i] = NoResponse)

\* a task has returned "missing" without having asked for a slot, while the
\* output file of its path does not exist
C14_Witness ==
  /\ main_pc = "loop"
  /\ \E i \in Tasks :
       /\ task_pc[i] = "returned"
       /\ result[i] = <<"missing", audio_files[i]>>
       /\ i \notin requested
       /\ ~lrc[new_file_path(audio_files[i])].exists

\* C15: when the tag reader returns tags with a non-empty artist and a
\* non-empty title, whatever the album and the duration (None and 0
\* included), get_song_details returns them without an exception, and the
\* task's next step takes it to the limiter: it enters the lookup or waits
\* for a slot, and has no result yet.
C15_OnlyArtistAndTitleRequired ==
  /\ [][\A i \in Tasks :
          (/\ main_pc' = "loop"
           /\ task_pc[i] = "executor"
           /\ task_pc'[i] = "extracted")
            => \A audio \in TinyTagResults :
                 (/\ ~audio.raises
                  /\ ~Falsy(audio.artist)
                  /\ ~Falsy(audio.title)
                  /\ details'[i] = get_song_details(audio))
                   => details'[i].error = NoError]_vars
  /\ [][\A i \in Tasks :
          (/\ main_pc' = "loop"
           /\ task_pc[i] = "extracted"
           /\ task_pc'[i] # "extracted"
           /\ details[i].error = NoError
           /\ ~Falsy(details[i].artist)
           /\ ~Falsy(details[i].title))
            => /\ task_pc'[i] \in {"lookup", "wait_sem"}
               /\ result'[i] = NoResult]_vars

(***************************************************************************)
(* is_in_cache on its own: one path against a list of entries.             *)
(***************************************************************************)
\* cache entries: the directory /m/a, the same with a trailing separator,
\* the directories /m/ab and /m, the working directory ".", the file
\* /m/a/x.mp3, and /m/a/x, which is neither a file nor a directory
ContainsEntries ==
  { <<"/", "m", "/", "a">>,
    <<"/", "m", "/", "a", "/">>,
    <<"/", "m", "/", "a", "b">>,
    <<"/", "m">>,
    <<".">>,
    <<"/", "m", "/", "a", "/", "x", ".", "m", "p", "3">>,
    <<"/", "m", "/", "a", "/", "x">> }

\* the lists of at most MaxEntries entries
ContainsLists == UNION {[1..n -> ContainsEntries] : n \in 0..MaxEntries}

\* one audio file of the tree is about to be looked up in a list of entries
InitContains ==
  /\ run = 1
  /\ main_pc = "contains"
  /\ cache_file = NoFile
  /\ lrc = [p \in LrcPaths |-> NoLrc]
  /\ \E k \in 1..Len(AudioTree) : audio_files = <<AudioTree[k]>>
  /\ total_files = 1
  /\ cache_entries \in ContainsLists
  /\ Found_lyrics = 0
  /\ Missing_lyrics = 0
  /\ idx = 0
  /\ sem = MAX_CONCURRENCY
  /\ task_pc = <<"new">>
  /\ details = <<NoDetails>>
  /\ response = <<NoResponse>>
  /\ result = <<NoResult>>
  /\ completed = <<>>
  /\ requested = {}
  /\ cache_at_start = NoFile
  /\ cache_writes = 0
  /\ prev_resolved = FALSE

\* is_in_cache(file_path, cache_entries): the answer, or the exception
is_in_cache_called ==
  /\ main_pc = "contains"
  /\ result' = <<<<is_in_cache(audio_files[1], cache_entries), audio_files[1]>>>>
  /\ task_pc' = <<"returned">>
  /\ main_pc' = "answered"
  /\ UNCHANGED << run, cache_file, lrc, audio_files, total_files,
                  cache_entries, Found_lyrics, Missing_lyrics, idx, sem,
                  details, response, completed, requested, cache_at_start,
                  cache_writes, prev_resolved >>

NextContains == is_in_cache_called

SpecContains == InitContains /\ [][NextContains]_vars

\* C16: is_in_cache(path, entries) answers True exactly when some entry is
\* the path itself or is a directory that holds the path, segment by
\* segment, however the entry is written (a trailing separator, a path
\* relative to the working directory); otherwise it answers False.  A
\* directory whose name is only a string prefix of the path's does not
\* hold it.
C16_ContainsBySegments ==
  main_pc = "answered"
    => LET path == audio_files[1]
           contained ==
             \E k \in 1..Len(cache_entries) :
               cache_entries[k] = path \/ Under(path, cache_entries[k])
       IN result[1][1] = (IF contained THEN "True" ELSE "False")

\* client.get returned a response with status 200
Status200(r) == ~r.raises /\ r.status_code = 200

\* the step in which task i, holding the response to its request, goes on
LookupReturns(i) ==
  /\ main_pc' = "loop"
  /\ task_pc[i] = "responded"
  /\ task_pc'[i] # "responded"
  /\ Status200(response[i])

\* what the step after the lookup does with the text it was given: without
\* a text the file is "missing" and no output file changes; with a text,
\* unless the write fails, the file is "found" and its output file holds
\* the text
OutcomeOfText(i, text) ==
  IF text = None
  THEN /\ task_pc'[i] = "returned"
       /\ result'[i] = <<"missing", audio_files[i]>>
       /\ lrc' = lrc
  ELSE /\ task_pc'[i] = "returned"
       /\ result'[i][1] \in {"found", "error"}
       /\ result'[i][1] = "found"
            => /\ result'[i] = <<"found", audio_files[i]>>
               /\ lrc'[new_file_path(audio_files[i])] = LrcWith(text[1])

\* C17 as stated: on status 200 the text is the synced lyrics when the
\* field is there and not empty, otherwise the plain lyrics field; only
\* when neither field is there is the file "missing".
C17_SyncedElsePlain ==
  [][\A i \in Tasks :
       LookupReturns(i)
         => LET r == response[i]
                text == IF r.syncedLyrics # None /\ r.syncedLyrics # Some("")
                        THEN r.syncedLyrics
                        ELSE r.plainLyrics
            IN OutcomeOfText(i, text)]_vars

\* C17: on status 200 the text is the synced lyrics when the field is
\* there and not empty, otherwise the plain lyrics when that field is
\* there and not empty; with no such field the file is "missing" and no
\* output file is written.  With a text, when the write succeeds, the file
\* is "found" and its output file holds exactly the text.
C17_SyncedElseNonEmptyPlain ==
  [][\A i \in Tasks :
       LookupReturns(i)
         => LET r == response[i]
                text == IF r.syncedLyrics # None /\ r.syncedLyrics # Some("")
                        THEN r.syncedLyrics
                        ELSE IF r.plainLyrics # None /\ r.plainLyrics # Some("")
                        THEN r.plainLyrics
                        ELSE None
            IN OutcomeOfText(i, text)]_vars

\* one file is "found" on a response whose synced lyrics were empty and
\* its output file holds the plain lyrics; the other is "missing" on a 200
\* response whose only lyrics field was an empty plain text
C17_Witness ==
  /\ main_pc = "loop"
  /\ \E i, j \in Tasks :
       /\ i # j
       /\ task_pc[i] = "returned"
       /\ Status200(response[i])
       /\ response[i].syncedLyrics = Some("")
       /\ result[i] = <<"found", audio_files[i]>>
       /\ lrc[new_file_path(audio_files[i])] = LrcWith("plain")
       /\ task_pc[j] = "returned"
       /\ Status200(response[j])
       /\ response[j].plainLyrics = Some("")
       /\ result[j] = <<"missing", audio_files[j]>>

\* where a task may be after one step, given where it was: the cache check
\* and the output check ("new"), the extraction ("executor", "extracted"),
\* the lookup ("wait_sem", "lookup", "responded"), the write (the step out
\* of "responded"), the outcome ("returned", "raised"), its collection by
\* the loop ("consumed")
StepsAfter(pc) ==
  CASE pc = "new" -> {"new", "returned", "raised", "executor"}
    [] pc = "executor" -> {"executor", "extracted"}
    [] pc = "extracted" -> {"extracted", "returned", "wait_sem", "lookup"}
    [] pc = "wait_sem" -> {"wait_sem", "lookup"}
    [] pc = "lookup" -> {"lookup", "responded"}
    [] pc = "responded" -> {"responded", "returned"}
    [] pc = "returned" -> {"returned", "consumed"}
    [] pc = "raised" -> {"raised"}
    [] pc = "consumed" -> {"consumed"}

\* C18: a task goes through the cache check, the output check, the
\* extraction, the lookup and the write in that order and stops at the
\* first that gives its outcome: it enters the lookup only from an
\* extraction that returned a non-empty artist and title, an output file
\* is written only in the step of a task whose lookup has returned lyrics
\* and only that task's output file, and a task that has its outcome takes
\* no request, response, tags or other result any more.  Across files no
\* order is kept (C18_Witness).
C18_StepOrder ==
  [][(main_pc = "loop" /\ main_pc' = "loop")
       => /\ \A i \in Tasks :
               /\ task_pc'[i] \in StepsAfter(task_pc[i])
               /\ (task_pc'[i] = "lookup" /\ task_pc[i] # "lookup")
                    => /\ details[i].error = NoError
                       /\ details[i].artist \notin {None, Some("")}
                       /\ details[i].title \notin {None, Some("")}
                       /\ i \notin requested
                       /\ requested' = requested \cup {i}
               /\ (i \in requested' /\ i \notin requested)
                    => (task_pc'[i] = "lookup" /\ task_pc[i] # "lookup")
               /\ task_pc[i] \in {"returned", "raised", "consumed"}
                    => /\ result'[i] = result[i]
                       /\ details'[i] = details[i]
                       /\ response'[i] = response[i]
                       /\ (i \in requested') = (i \in requested)
          /\ \A p \in LrcPaths :
               lrc'[p] # lrc[p]
                 => \E i \in Tasks :
                      /\ p = new_file_path(audio_files[i])
                      /\ task_pc[i] = "responded"
                      /\ task_pc'[i] = "returned"
                      /\ \E text \in {response[i].syncedLyrics,
                                       response[i].plainLyrics} :
                           text # None /\ text # Some("")
                      /\ Status200(response[i])]_vars

\* the file collected second has its lyrics written and is the first to
\* have finished, while the file collected first is still in its lookup
C18_Witness ==
  /\ main_pc = "loop"
  /\ \E i, j \in Tasks :
       /\ j < i
       /\ completed # <<>>
       /\ Head(completed) = i
       /\ task_pc[i] = "returned"
       /\ result[i] = <<"found", audio_files[i]>>
       /\ lrc[new_file_path(audio_files[i])].exists
       /\ task_pc[j] = "lookup"

\* the tasks that are past their first step and have no result yet
InFlight == {i \in Tasks : task_pc[i] \in {"executor", "extracted", "wait_sem",
                                            "lookup", "responded"}}

\* C20: a step of a task leaves Found_lyrics, Missing_lyrics and
\* cache_entries as they are; they change only in a step of the loop of
\* main_async, which takes one result, adds at most one to one counter and
\* appends at most one entry.  Every cache check of the run sees the list
\* as it was loaded, and what the loop appends leaves the answer of
\* is_in_cache as it was for every file other than the appended ones.
C20_SingleWriter ==
  /\ [][(main_pc = "loop" /\ main_pc' = "loop")
          => /\ (\E i \in Tasks : task_pc'[i] # task_pc[i]
                                   /\ task_pc'[i] # "consumed")
                  => /\ Found_lyrics' = Found_lyrics
                     /\ Missing_lyrics' = Missing_lyrics
                     /\ cache_entries' = cache_entries
                     /\ idx' = idx
             /\ (\/ Found_lyrics' # Found_lyrics
                 \/ Missing_lyrics' # Missing_lyrics
                 \/ cache_entries' # cache_entries)
                  => /\ idx' = idx + 1
                     /\ Cardinality({i \in Tasks : task_pc'[i] # task_pc[i]}) = 1
                     /\ \A i \in Tasks :
                          task_pc'[i] # task_pc[i]
                            => task_pc[i] = "returned" /\ task_pc'[i] = "consumed"
                     /\ Found_lyrics' + Missing_lyrics'
                          \in {Found_lyrics + Missing_lyrics,
                               Found_lyrics + Missing_lyrics + 1}
                     /\ Found_lyrics' >= Found_lyrics
                     /\ Missing_lyrics' >= Missing_lyrics
                     /\ \/ cache_entries' = cache_entries
                        \/ \E i \in Tasks :
                             cache_entries' = Append(cache_entries, audio_files[i])
             /\ \A i \in Tasks :
                  (task_pc[i] = "new" /\ task_pc'[i] # "new")
                    => cache_entries = Loaded]_vars
  /\ [](main_pc = "loop"
          => \A j \in Tasks :
               audio_files[j] \notin
                   {cache_entries[k] : k \in (Len(Loaded) + 1)..Len(cache_entries)}
                 => is_in_cache(audio_files[j], cache_entries)
                      = is_in_cache(audio_files[j], Loaded))

\* the loop has appended the path of a file it has taken while the other
\* file, past its cache check, is still in its lookup
C20_Witness ==
  /\ main_pc = "loop"
  /\ Len(cache_entries) > Len(Loaded)
  /\ Found_lyrics = 1
  /\ \E j \in InFlight : task_pc[j] = "lookup"

(***************************************************************************)
(* Progress.  The event loop runs every task that can run, the executor    *)
(* finishes every extraction and every request ends (it has a timeout of   *)
(* 10 seconds, src/main.py:46).  The interrupt and the next run of the     *)
(* program are up to the user.                                             *)
(***************************************************************************)
Fairness ==
  /\ WF_vars(MainStart)
  /\ WF_vars(main_async_loop)
  /\ WF_vars(main_async_finish)
  /\ \A i \in 1..NumFiles :
       /\ WF_vars(process_file_start(i))
       /\ WF_vars(executor_runs(i))
       /\ WF_vars(process_file_extracted(i))
       /\ WF_vars(process_file_acquired(i))
       /\ WF_vars(network_responds(i))
       /\ WF_vars(process_file_looked_up(i))

FairSpec == Init /\ [][Next]_vars /\ Fairness

\* the five outcomes of process_file
Outcome == {"cached", "already_exists", "found", "missing", "error"}

\* C19: a run that the user does not interrupt reaches save_cache and the
\* summary, with one of the five outcomes for every file and every slot of
\* the limiter free; until then no task waits for a slot forever, and the
\* slots taken are those of the tasks in their lookup.
C19_RunCompletes ==
  /\ (main_pc = "start") ~> (main_pc \in {"done", "interrupted"})
  /\ \A i \in 1..NumFiles :
       (main_pc = "loop" /\ task_pc[i] = "wait_sem")
         ~> (main_pc # "loop" \/ task_pc[i] # "wait_sem")
  /\ [](main_pc = "loop" => sem = MAX_CONCURRENCY - Cardinality(InLookup))
  /\ [](main_pc = "done"
          => /\ sem = MAX_CONCURRENCY
             /\ \A i \in Tasks :
                  task_pc[i] = "consumed" /\ result[i][1] \in Outcome)

====
